---- MODULE Spec2Model ----
(***************************************************************************)
(* Night thaw checker: the schedule fetch pipeline of the ThawChecker      *)
(* component (handleCheckSchedule and fetchSchedule), its address inputs   *)
(* and the seed-phrase derivation (handleGenerateAddresses).               *)
(*                                                                         *)
(* The handler is an async function: it runs to completion between its     *)
(* awaits.  Its position is kept in pc:                                    *)
(*   "idle"      no invocation of handleCheckSchedule is active            *)
(*   "loop"      at the head of the for loop, before the loop test         *)
(*   "fetching"  suspended in `await fetchSchedule(address)`, request out   *)
(*   "settled"   the request has settled, the continuation is queued       *)
(*   "delay"     suspended in the 1500 ms rate-limit timeout               *)
(*                                                                         *)
(* Optional values (null / undefined in the source) are sequences of       *)
(* length at most one: << >> is null/undefined, << v >> is the value v.    *)
(***************************************************************************)
EXTENDS Integers, Sequences, FiniteSets, TLC

\* ---------------------------------------------------------------- bounds
\* Longest address list a run is started with.
MaxN == 12

\* Most responses per run that are anything but an empty-schedule success
\* (a schedule with thaws, or a failure of any kind).
MaxNonEmpty == 1

\* Most invocations of handleGenerateAddresses that are active at once.
MaxGens == 2

\* Invocations overlap only when each derives at most this many addresses.
MaxOverlapCount == 2

\* Longest seed phrase, in words, handed to validateMnemonic.
MaxWords == 25

\* Longest address list typed by the user whose requests receive every kind
\* of response; the requests of a longer list receive empty schedules.
MaxVaried == 2

\* ------------------------------------------------------- program constants
MAX_CONSECUTIVE_EMPTY == 10

\* Bounds of the address count accepted by handleGenerateAddresses.
MIN_ADDRESS_COUNT == 1
MAX_ADDRESS_COUNT == 200

\* isValidAddress: an address is longer than this many characters.
MIN_ADDRESS_LENGTH == 50

\* Length of the hex encoding of a 32-byte public key.
PUBLIC_KEY_HEX_LENGTH == 64

VARIABLES
    results,           \* useState<AddressResult[]>
    loading,           \* useState(false): the busy flag
    stoppedEarly,      \* useState<StoppedEarlyInfo | null>
    addressesToCheck,  \* local of handleCheckSchedule
    i,                 \* loop index, 0-based as in the source
    consecutiveEmpty,  \* local counter
    checkedCount,      \* local counter
    pc,                \* position of the handler
    inFlight,          \* indices whose request is issued and not yet settled
    response,          \* what the settled request delivered, until consumed
    fetchLog,          \* indices of the requests issued by the current run
    delays,            \* rate-limit timeouts started by the current run
    inputMode,         \* useState<InputMode>('single')
    viewMode,          \* useState<ViewMode>('timeline')
    derivedAddresses,  \* useState<DerivedAddress[]>([])
    derivationError,   \* useState<string | null>(null)
    gens               \* invocations of handleGenerateAddresses, by slot

\* State of the check run.
runVars == << results, loading, stoppedEarly, addressesToCheck, i,
              consecutiveEmpty, checkedCount, pc, inFlight, response,
              fetchLog, delays >>

\* State of the address source.
uiVars == << inputMode, viewMode, derivedAddresses, derivationError, gens >>

vars == << runVars, uiVars >>

\* ------------------------------------------------------------ data model
Null == << >>
Some(v) == << v >>

\* Thaw: one element of ThawSchedule.thaws, as the API returns it.
Thaw == [amount |-> 5000000, queue_position |-> Null, status |-> "upcoming",
         thawing_period_start |-> "2026-01-01", transaction_id |-> Null]

\* The schedule fetchSchedule returns for "no redeemable thaws".
EmptySchedule == [numberOfClaimedAllocations |-> 0, thaws |-> << >>]

\* Address lists a run can be started with: entry k of the ascending lists
\* carries address k and label k; the short lists also hold repeated and
\* out-of-order addresses.
Entry(label, address) == [label |-> label, address |-> address]

EntryLists ==
    { [k \in 1..n |-> Entry(k, k)] : n \in 1..MaxN }
    \cup { << Entry(1, 2), Entry(2, 1) >>, << Entry(1, 1), Entry(2, 1) >> }

\* ------------------------------------------------------ remote responses
\* What `fetch(url)` can do: reject (network failure) with some message, or
\* resolve with a status and a body.
Body(json, type, claimed, thaws) ==
    [json |-> json, type |-> type, claimed |-> claimed, thaws |-> thaws]

NotJson == Body(FALSE, "", Null, Null)
NoRedeemableThaws == Body(TRUE, "no_redeemable_thaws", Null, Null)
OtherErrorType == Body(TRUE, "invalid_address", Null, Null)
NoFields == Body(TRUE, "", Null, Null)
NoThaws == Body(TRUE, "", Some(0), Some(<< >>))
OneThaw == Body(TRUE, "", Some(1), Some(<< Thaw >>))

Rejected(message) ==
    [kind |-> "reject", message |-> message, status |-> 0, body |-> NotJson]

Http(status, body) ==
    [kind |-> "http", message |-> "", status |-> status, body |-> body]

\* Messages of the error a rejected fetch() carries.  The platform chooses
\* the message and the handler copies whatever it finds (error.message).
RejectMessages == {"Failed to fetch", "Skipped"}

Responses ==
    { Rejected(m) : m \in RejectMessages }
    \cup { Http(200, b) : b \in {NoFields, NoThaws, OneThaw, NotJson} }
    \cup { Http(400, b) : b \in {NoRedeemableThaws, OtherErrorType, NotJson} }
    \cup { Http(500, b) : b \in {NoRedeemableThaws, NotJson} }

Return(schedule) == [ok |-> TRUE, schedule |-> schedule, message |-> ""]
Throw(message) == [ok |-> FALSE, schedule |-> EmptySchedule, message |-> message]

OrDefault(opt, default) == IF opt = Null THEN default ELSE opt[1]

\* Variant: the 400 "no_redeemable_thaws" body is not remapped, every
\* non-2xx response throws.
fetchSchedule_NoRemap(resp) ==
    IF resp.kind = "reject"
    THEN Throw(resp.message)
    ELSE IF ~(resp.status \in 200..299)
         THEN Throw("HTTP " \o ToString(resp.status))
         ELSE IF ~resp.body.json
              THEN Throw("Unexpected token")
              ELSE Return([numberOfClaimedAllocations |->
                               OrDefault(resp.body.claimed, 0),
                           thaws |-> OrDefault(resp.body.thaws, << >>)])

\* Variant: every 400 response with a JSON body is taken for an empty
\* schedule, whatever its type field says.
fetchSchedule_Any400(resp) ==
    IF resp.kind = "reject"
    THEN Throw(resp.message)
    ELSE IF ~(resp.status \in 200..299)
         THEN IF resp.status = 400 /\ resp.body.json
              THEN Return(EmptySchedule)
              ELSE Throw("HTTP " \o ToString(resp.status))
         ELSE IF ~resp.body.json
              THEN Throw("Unexpected token")
              ELSE Return([numberOfClaimedAllocations |->
                               OrDefault(resp.body.claimed, 0),
                           thaws |-> OrDefault(resp.body.thaws, << >>)])

\* fetchSchedule: the outcome of one request, from the response to it.
fetchSchedule(resp) ==
    IF resp.kind = "reject"
    THEN Throw(resp.message)
    ELSE IF ~(resp.status \in 200..299)
         THEN IF /\ resp.status = 400
                 /\ resp.body.json
                 /\ resp.body.type = "no_redeemable_thaws"
              THEN Return(EmptySchedule)
              ELSE Throw("HTTP " \o ToString(resp.status))
         ELSE IF ~resp.body.json
              THEN Throw("Unexpected token")
              ELSE Return([numberOfClaimedAllocations |->
                               OrDefault(resp.body.claimed, 0),
                           thaws |-> OrDefault(resp.body.thaws, << >>)])

\* ----------------------------------------------------- result sequence
\* Variant: the records are created without the loading flag set.
initialResults_NotLoading(entries) ==
    [k \in 1..Len(entries) |->
        [address |-> entries[k].address, label |-> entries[k].label,
         schedule |-> Null, error |-> Null, loading |-> FALSE]]

initialResults(entries) ==
    [k \in 1..Len(entries) |->
        [address |-> entries[k].address, label |-> entries[k].label,
         schedule |-> Null, error |-> Null, loading |-> TRUE]]

\* Variant: the update writes the schedule into every record (no index test).
SetSchedule_EveryRecord(prev, idx0, schedule) ==
    [k \in 1..Len(prev) |->
        [prev[k] EXCEPT !.schedule = Some(schedule), !.loading = FALSE]]

\* prev.map((r, idx) => idx === i ? { ...r, schedule, loading: false } : r)
SetSchedule(prev, idx0, schedule) ==
    [k \in 1..Len(prev) |->
        IF k - 1 = idx0
        THEN [prev[k] EXCEPT !.schedule = Some(schedule), !.loading = FALSE]
        ELSE prev[k]]

\* Variant: the failure is written to the record after the one fetched.
SetError_NextRecord(prev, idx0, message) ==
    [k \in 1..Len(prev) |->
        IF k - 1 = idx0 + 1
        THEN [prev[k] EXCEPT !.error = Some(message), !.loading = FALSE]
        ELSE prev[k]]

\* prev.map((r, idx) => idx === i ? { ...r, error: message, loading: false } : r)
SetError(prev, idx0, message) ==
    [k \in 1..Len(prev) |->
        IF k - 1 = idx0
        THEN [prev[k] EXCEPT !.error = Some(message), !.loading = FALSE]
        ELSE prev[k]]

\* Variant: the remaining records are dropped (filter) instead of marked.
MarkSkipped_Truncate(prev, idx0) == SubSeq(prev, 1, idx0 + 1)

\* Variant: the skip marking starts at the index just processed (idx >= i).
MarkSkipped_FromCurrent(prev, idx0) ==
    [k \in 1..Len(prev) |->
        IF k - 1 >= idx0
        THEN [prev[k] EXCEPT !.loading = FALSE, !.error = Some("Skipped")]
        ELSE prev[k]]

\* prev.map((r, idx) => idx > i ? { ...r, loading: false, error: 'Skipped' } : r)
MarkSkipped(prev, idx0) ==
    [k \in 1..Len(prev) |->
        IF k - 1 > idx0
        THEN [prev[k] EXCEPT !.loading = FALSE, !.error = Some("Skipped")]
        ELSE prev[k]]

hasThaws(schedule) == Len(schedule.thaws) > 0

\* Variant: a schedule with thaws does not reset the counter.
CountSuccess_NoReset(count, schedule) == count + 1

\* The counter after a successful fetch.
CountSuccess(count, schedule) ==
    IF hasThaws(schedule) THEN 0 ELSE count + 1

\* Variant: a failed fetch sets the counter back to 0.
CountFailure_Resets(count) == 0

\* Variant: a failed fetch does not count towards early termination.
CountFailure_Ignored(count) == count

\* The counter after a failed fetch.
CountFailure(count) == count + 1

\* Variant: off by one, the run stops only once the counter exceeds the
\* threshold.
ShouldStop_Exceeds(count, idx0, n) ==
    count > MAX_CONSECUTIVE_EMPTY /\ idx0 < n - 1

\* Variant: the threshold alone stops the run, also at the last index.
ShouldStop_AnyIndex(count, idx0, n) == count >= MAX_CONSECUTIVE_EMPTY

\* consecutiveEmpty >= MAX_CONSECUTIVE_EMPTY && i < addressesToCheck.length - 1
ShouldStop(count, idx0, n) ==
    count >= MAX_CONSECUTIVE_EMPTY /\ idx0 < n - 1

\* Variant: the timeout is awaited after every request, the last included.
NeedsDelay_Always(idx0, n) == TRUE

\* if (i < addressesToCheck.length - 1) await timeout
NeedsDelay(idx0, n) == idx0 < n - 1

\* Variant: the address being processed is not counted as checked.
StoppedEarlyInfo_BeforeCurrent(checked, total) ==
    [checked |-> checked - 1, total |-> total,
     consecutiveEmpty |-> MAX_CONSECUTIVE_EMPTY]

StoppedEarlyInfo(checked, total) ==
    [checked |-> checked, total |-> total,
     consecutiveEmpty |-> MAX_CONSECUTIVE_EMPTY]

\* ------------------------------------------------------ seed derivation
\* A seed phrase after trim(): the number of words split(/\s+/) yields,
\* whether every word is in the English wordlist, and whether the BIP39
\* checksum validation of the library accepts it.  The empty string has no
\* words.
Phrase(words, known, checksum) ==
    [words |-> words, known |-> known, checksum |-> checksum]

EmptyPhrase == Phrase(0, TRUE, FALSE)

validWordCounts == {12, 15, 18, 21, 24}

\* The phrases there are: the library accepts a phrase only if all its
\* words are in the wordlist and their number is a valid one.
AllPhrases ==
    { p \in [words : 0..MaxWords, known : BOOLEAN, checksum : BOOLEAN] :
        /\ p.checksum => (p.known /\ p.words \in validWordCounts)
        /\ p.words = 0 => p = EmptyPhrase }

\* bip39.validateMnemonic(trimmed), then with the explicit English wordlist.
bip39Validate(phrase) == phrase.checksum

\* Variant: checksum validation only, without the wordlist fallback.
validateMnemonic_ChecksumOnly(phrase) == bip39Validate(phrase)

validateMnemonic(phrase) ==
    IF bip39Validate(phrase)
    THEN TRUE
    ELSE LET allWordsValid == phrase.known
         IN  IF allWordsValid /\ phrase.words \in validWordCounts
             THEN TRUE
             ELSE FALSE

\* setAddressCount(parseInt(e.target.value) || 1): the text of the count
\* field is << >> when parseInt yields NaN, << n >> when it yields n.
parseAddressCount(text) ==
    IF text = << >> \/ text[1] = 0 THEN 1 ELSE text[1]

\* An address string: its first five characters when they are "addr1"
\* ("other" otherwise), its length, and an id standing for the rest.
Address(prefix, length, id) == [prefix |-> prefix, length |-> length, id |-> id]

\* What Lucid derives for a mnemonic and an account index: a mainnet base
\* address and the hex of the account's public key.
MnemonicId(phrase) ==
    4 * phrase.words + (IF phrase.known THEN 2 ELSE 0)
                     + (IF phrase.checksum THEN 1 ELSE 0)

LucidAddress(mnemonic, accountIndex) ==
    Address("addr1", 103, 1000 * MnemonicId(mnemonic) + accountIndex)

LucidKey(mnemonic, accountIndex, length) ==
    [length |-> length, id |-> 1000 * MnemonicId(mnemonic) + accountIndex]

DerivedAddress(index, bech32, publicKeyHex) ==
    [index |-> index, bech32 |-> bech32, publicKeyHex |-> publicKeyHex,
     registered |-> FALSE]

\* What the three awaits of one loop iteration can deliver: a library call
\* throws, or the signed message carries a key of some length.
DeriveOutcomes ==
    { [threw |-> TRUE, keyLength |-> 0],
      [threw |-> FALSE, keyLength |-> PUBLIC_KEY_HEX_LENGTH],
      [threw |-> FALSE, keyLength |-> PUBLIC_KEY_HEX_LENGTH - 2] }

\* Error messages of handleGenerateAddresses and deriveAddressesFromSeed.
EmptyPhraseMessage == "Please enter a seed phrase"
InvalidPhraseMessage ==
    "Invalid seed phrase. Please check your words and try again."
CountMessage == "Address count must be between 1 and 200"
KeyMessage(index) ==
    "Failed to derive addresses: Failed to extract valid public key for index "
        \o ToString(index)
ThrowMessage == "Failed to derive addresses: Unknown error"

\* One invocation of handleGenerateAddresses: its position, the seedPhrase
\* and addressCount of the render it was started from, and the locals of
\* deriveAddressesFromSeed.  Positions:
\*   "idle"      the slot holds no invocation
\*   "clicked"   the click is dispatched, the handler has not run yet
\*   "deriving"  suspended in an await of loop iteration i
\*   "settled"   the awaits of iteration i have delivered `outcome`, the
\*               continuation is queued
GenIds == 1..MaxGens

Gen(position, phrase, count, index, addresses, outcome) ==
    [pc |-> position, seedPhrase |-> phrase, addressCount |-> count,
     i |-> index, addresses |-> addresses, outcome |-> outcome]

IdleGen == Gen("idle", EmptyPhrase, 0, 0, << >>, Null)

\* ------------------------------------------------------------- actions
Init ==
    /\ results = << >>
    /\ loading = FALSE
    /\ stoppedEarly = Null
    /\ addressesToCheck = << >>
    /\ i = 0
    /\ consecutiveEmpty = 0
    /\ checkedCount = 0
    /\ pc = "idle"
    /\ inFlight = {}
    /\ response = Null
    /\ fetchLog = << >>
    /\ delays = 0
    /\ inputMode = "single"
    /\ viewMode = "timeline"
    /\ derivedAddresses = << >>
    /\ derivationError = Null
    /\ gens = [g \in GenIds |-> IdleGen]

\* Variant: the StoppedEarlyInfo of the previous run is not cleared.
StartRun_KeepsStoppedEarly(entries) ==
    /\ addressesToCheck' = entries
    /\ loading' = TRUE
    /\ results' = initialResults(entries)
    /\ consecutiveEmpty' = 0
    /\ checkedCount' = 0
    /\ i' = 0
    /\ pc' = "loop"
    /\ fetchLog' = << >>
    /\ delays' = 0
    /\ UNCHANGED << stoppedEarly, inFlight, response >>
    /\ UNCHANGED uiVars

\* handleCheckSchedule from setLoading(true) to the head of the loop, for
\* the address list that passed input validation.
StartRun(entries) ==
    /\ addressesToCheck' = entries
    /\ loading' = TRUE
    /\ results' = initialResults(entries)
    /\ stoppedEarly' = Null
    /\ consecutiveEmpty' = 0
    /\ checkedCount' = 0
    /\ i' = 0
    /\ pc' = "loop"
    /\ fetchLog' = << >>
    /\ delays' = 0
    /\ UNCHANGED << inFlight, response >>
    /\ UNCHANGED uiVars

\* The Check Schedule button, enabled while no run is in flight, with an
\* address list that passed input validation.
CheckStart ==
    /\ ~loading
    /\ \E entries \in EntryLists : StartRun(entries)

\* Variant: the request is issued without awaiting it (fire and forget), the
\* loop moves straight on to the next index.
IssueFetch_NoAwait ==
    /\ pc = "loop"
    /\ i < Len(addressesToCheck)
    /\ checkedCount' = checkedCount + 1
    /\ inFlight' = inFlight \cup {i}
    /\ fetchLog' = Append(fetchLog, i)
    /\ i' = i + 1
    /\ UNCHANGED << results, loading, stoppedEarly, addressesToCheck, pc,
                    consecutiveEmpty, response, delays >>
    /\ UNCHANGED uiVars

\* Loop test passed: the request for index i is issued.
IssueFetch ==
    /\ pc = "loop"
    /\ i < Len(addressesToCheck)
    /\ checkedCount' = checkedCount + 1
    /\ inFlight' = inFlight \cup {i}
    /\ fetchLog' = Append(fetchLog, i)
    /\ pc' = "fetching"
    /\ UNCHANGED << results, loading, stoppedEarly, addressesToCheck, i,
                    consecutiveEmpty, response, delays >>
    /\ UNCHANGED uiVars

\* Variant: the handler ends without setLoading(false).
LoopExit_StaysBusy ==
    /\ pc = "loop"
    /\ ~(i < Len(addressesToCheck))
    /\ pc' = "idle"
    /\ UNCHANGED << results, loading, stoppedEarly, addressesToCheck, i,
                    consecutiveEmpty, checkedCount, inFlight, response,
                    fetchLog, delays >>
    /\ UNCHANGED uiVars

\* Loop test failed: the run is complete.
LoopExit ==
    /\ pc = "loop"
    /\ ~(i < Len(addressesToCheck))
    /\ loading' = FALSE
    /\ pc' = "idle"
    /\ UNCHANGED << results, stoppedEarly, addressesToCheck, i,
                    consecutiveEmpty, checkedCount, inFlight, response,
                    fetchLog, delays >>
    /\ UNCHANGED uiVars

\* Results that are neither loading nor an empty-schedule success.
NonEmptyCount ==
    Cardinality({ k \in 1..Len(results) :
                    /\ ~results[k].loading
                    /\ results[k].schedule # Some(EmptySchedule) })

Admissible(resp) ==
    \/ NonEmptyCount < MaxNonEmpty
    \/ fetchSchedule(resp) = Return(EmptySchedule)

\* The request for index i settles: fetch() rejects, or resolves with a
\* status and a body.
FetchSettles ==
    /\ pc = "fetching"
    /\ i \in inFlight
    /\ \E r \in Responses :
          /\ Admissible(r)
          /\ response' = Some(r)
    /\ inFlight' = inFlight \ {i}
    /\ pc' = "settled"
    /\ UNCHANGED << results, loading, stoppedEarly, addressesToCheck, i,
                    consecutiveEmpty, checkedCount, fetchLog, delays >>
    /\ UNCHANGED uiVars

\* The handler resumes with the outcome of fetchSchedule and runs to its
\* next await, or to its end.
ResumeAfterFetch ==
    /\ pc = "settled"
    /\ LET outcome == fetchSchedule(response[1])
           n == Len(addressesToCheck)
           count == IF outcome.ok
                    THEN CountSuccess(consecutiveEmpty, outcome.schedule)
                    ELSE CountFailure(consecutiveEmpty)
           updated == IF outcome.ok
                      THEN SetSchedule(results, i, outcome.schedule)
                      ELSE SetError(results, i, outcome.message)
       IN  /\ consecutiveEmpty' = count
           /\ IF ShouldStop(count, i, n)
              THEN /\ results' = MarkSkipped(updated, i)
                   /\ stoppedEarly' = Some(StoppedEarlyInfo(checkedCount, n))
                   /\ loading' = FALSE
                   /\ pc' = "idle"
                   /\ UNCHANGED << i, delays >>
              ELSE /\ results' = updated
                   /\ UNCHANGED << stoppedEarly, loading >>
                   /\ IF NeedsDelay(i, n)
                      THEN /\ pc' = "delay"
                           /\ delays' = delays + 1
                           /\ UNCHANGED i
                      ELSE /\ pc' = "loop"
                           /\ i' = i + 1
                           /\ UNCHANGED delays
    /\ response' = Null
    /\ UNCHANGED << addressesToCheck, checkedCount, inFlight, fetchLog >>
    /\ UNCHANGED uiVars

\* Variant: after the timeout an index whose fetch failed is tried again.
DelayElapsed_RetryFailed ==
    /\ pc = "delay"
    /\ i' = IF results[i + 1].error # Null THEN i ELSE i + 1
    /\ pc' = "loop"
    /\ UNCHANGED << results, loading, stoppedEarly, addressesToCheck,
                    consecutiveEmpty, checkedCount, inFlight, response,
                    fetchLog, delays >>
    /\ UNCHANGED uiVars

\* The rate-limit timeout fires: i++ and back to the loop test.
DelayElapsed ==
    /\ pc = "delay"
    /\ i' = i + 1
    /\ pc' = "loop"
    /\ UNCHANGED << results, loading, stoppedEarly, addressesToCheck,
                    consecutiveEmpty, checkedCount, inFlight, response,
                    fetchLog, delays >>
    /\ UNCHANGED uiVars

\* ---------------------------------------------------------- input mode
InputModes == {"single", "bulk", "json", "seed"}

\* Variant: changing the input mode clears what the last run published.
SetInputMode_ClearsResults(mode) ==
    /\ inputMode' = mode
    /\ results' = << >>
    /\ stoppedEarly' = Null
    /\ UNCHANGED << viewMode, derivedAddresses, derivationError, gens >>
    /\ UNCHANGED << loading, addressesToCheck, i, consecutiveEmpty,
                    checkedCount, pc, inFlight, response, fetchLog, delays >>

\* The four mode buttons.
SetInputMode(mode) ==
    /\ inputMode' = mode
    /\ UNCHANGED << viewMode, derivedAddresses, derivationError, gens >>
    /\ UNCHANGED runVars

\* ---------------------------------------------- generating addresses
\* The slot a new invocation takes: the lowest one that is free.
FreeSlot(g) ==
    /\ gens[g].pc = "idle"
    /\ \A h \in GenIds : h < g => gens[h].pc # "idle"

OverlapAllowed(count) ==
    \/ \A h \in GenIds : gens[h].pc = "idle"
    \/ /\ count <= MaxOverlapCount
       /\ \A h \in GenIds :
             gens[h].pc # "idle" => gens[h].addressCount <= MaxOverlapCount

\* A click on Generate Addresses (the button is shown in seed mode and is
\* never disabled), with the seed phrase and the count field as the user
\* left them.
GenerateClick(phrase, text) ==
    /\ inputMode = "seed"
    /\ \E g \in GenIds :
          /\ FreeSlot(g)
          /\ OverlapAllowed(parseAddressCount(text))
          /\ gens' = [gens EXCEPT
                ![g] = Gen("clicked", phrase, parseAddressCount(text), 0,
                           << >>, Null)]
    /\ UNCHANGED << inputMode, viewMode, derivedAddresses, derivationError >>
    /\ UNCHANGED runVars

\* Variant: the count is not validated.
ValidationError_NoCountCheck(phrase, count) ==
    IF phrase.words = 0
    THEN Some(EmptyPhraseMessage)
    ELSE IF ~validateMnemonic(phrase)
         THEN Some(InvalidPhraseMessage)
         ELSE Null

\* The validation of handleGenerateAddresses: the message of the first
\* check that fails, null when all pass.
ValidationError(phrase, count) ==
    IF phrase.words = 0
    THEN Some(EmptyPhraseMessage)
    ELSE IF ~validateMnemonic(phrase)
         THEN Some(InvalidPhraseMessage)
         ELSE IF count < MIN_ADDRESS_COUNT \/ count > MAX_ADDRESS_COUNT
              THEN Some(CountMessage)
              ELSE Null

\* Variant: a generate request also clears the results on display.
handleGenerateAddresses_ClearsResults(g) ==
    /\ gens[g].pc = "clicked"
    /\ LET failure == ValidationError(gens[g].seedPhrase, gens[g].addressCount)
       IN  /\ derivationError' = failure
           /\ derivedAddresses' = << >>
           /\ gens' = [gens EXCEPT
                 ![g] = IF failure # Null
                        THEN IdleGen
                        ELSE Gen("deriving", gens[g].seedPhrase,
                                 gens[g].addressCount, 0, << >>, Null)]
    /\ results' = << >>
    /\ UNCHANGED << inputMode, viewMode >>
    /\ UNCHANGED << loading, stoppedEarly, addressesToCheck, i,
                    consecutiveEmpty, checkedCount, pc, inFlight, response,
                    fetchLog, delays >>

\* handleGenerateAddresses up to its first await: the error and the list
\* are cleared, the inputs validated, and deriveAddressesFromSeed entered.
handleGenerateAddresses(g) ==
    /\ gens[g].pc = "clicked"
    /\ LET failure == ValidationError(gens[g].seedPhrase, gens[g].addressCount)
       IN  /\ derivationError' = failure
           /\ derivedAddresses' = << >>
           /\ gens' = [gens EXCEPT
                 ![g] = IF failure # Null
                        THEN IdleGen
                        ELSE Gen("deriving", gens[g].seedPhrase,
                                 gens[g].addressCount, 0, << >>, Null)]
    /\ UNCHANGED << inputMode, viewMode >>
    /\ UNCHANGED runVars

\* Variant: the records are numbered from one.
PushAddress_OneBased(addresses, mnemonic, index, keyLength) ==
    Append(addresses,
           DerivedAddress(index + 1, LucidAddress(mnemonic, index),
                          LucidKey(mnemonic, index, keyLength)))

\* addresses.push({index: i, bech32: address, publicKeyHex: pubKeyHex, ...})
PushAddress(addresses, mnemonic, index, keyLength) ==
    Append(addresses,
           DerivedAddress(index, LucidAddress(mnemonic, index),
                          LucidKey(mnemonic, index, keyLength)))

\* The awaits of loop iteration i of invocation g deliver their outcome.
DeriveSettles(g) ==
    /\ gens[g].pc = "deriving"
    /\ \E o \in DeriveOutcomes :
          gens' = [gens EXCEPT ![g].pc = "settled", ![g].outcome = Some(o)]
    /\ UNCHANGED << inputMode, viewMode, derivedAddresses, derivationError >>
    /\ UNCHANGED runVars

\* The rest of loop iteration i of deriveAddressesFromSeed for invocation
\* g, and what follows it without a further await: the rethrow through both
\* catch blocks into the handler, or after the last index the return and
\* setDerivedAddresses.
DeriveResume(g) ==
    /\ gens[g].pc = "settled"
    /\ LET gen == gens[g]
           o == gen.outcome[1]
           pushed == PushAddress(gen.addresses, gen.seedPhrase, gen.i,
                                 o.keyLength)
       IN  IF o.threw
           THEN /\ derivationError' = Some(ThrowMessage)
                /\ gens' = [gens EXCEPT ![g] = IdleGen]
                /\ UNCHANGED derivedAddresses
           ELSE IF o.keyLength # PUBLIC_KEY_HEX_LENGTH
           THEN /\ derivationError' = Some(KeyMessage(gen.i))
                /\ gens' = [gens EXCEPT ![g] = IdleGen]
                /\ UNCHANGED derivedAddresses
           ELSE IF gen.i + 1 < gen.addressCount
           THEN /\ gens' = [gens EXCEPT
                      ![g] = Gen("deriving", gen.seedPhrase,
                                 gen.addressCount, gen.i + 1, pushed, Null)]
                /\ UNCHANGED << derivedAddresses, derivationError >>
           ELSE /\ derivedAddresses' = pushed
                /\ gens' = [gens EXCEPT ![g] = IdleGen]
                /\ UNCHANGED derivationError
    /\ UNCHANGED << inputMode, viewMode >>
    /\ UNCHANGED runVars

\* A dispatched click, or a queued continuation, runs before anything else
\* happens.
Dispatching == \E g \in GenIds : gens[g].pc \in {"clicked", "settled"}

\* Seed phrases and count fields the user generates with.
GenPhrases ==
    { EmptyPhrase, Phrase(12, TRUE, TRUE), Phrase(12, TRUE, FALSE),
      Phrase(12, FALSE, FALSE), Phrase(11, TRUE, FALSE) }

CountTexts ==
    { << >>, << -1 >>, << 0 >>, << 1 >>, << 2 >>,
      << MAX_ADDRESS_COUNT >>, << MAX_ADDRESS_COUNT + 1 >> }

NextGen ==
    \/ \E g \in GenIds : handleGenerateAddresses(g)
    \/ \E g \in GenIds : DeriveResume(g)
    \/ /\ ~Dispatching
       /\ \E mode \in InputModes : SetInputMode(mode)
    \/ /\ ~Dispatching
       /\ \E phrase \in GenPhrases, text \in CountTexts :
             GenerateClick(phrase, text)
    \/ /\ ~Dispatching
       /\ \E g \in GenIds : DeriveSettles(g)

SpecGen == Init /\ [][NextGen]_vars

\* The generate handler over every seed phrase, for one address and one
\* invocation at a time.
NextMnemonic ==
    \/ \E g \in GenIds : handleGenerateAddresses(g)
    \/ \E g \in GenIds : DeriveResume(g)
    \/ /\ ~Dispatching
       /\ \E mode \in InputModes : SetInputMode(mode)
    \/ /\ ~Dispatching
       /\ \A g \in GenIds : gens[g].pc = "idle"
       /\ \E phrase \in AllPhrases : GenerateClick(phrase, << 1 >>)
    \/ /\ ~Dispatching
       /\ \E g \in GenIds : DeriveSettles(g)

SpecMnemonic == Init /\ [][NextMnemonic]_vars

\* ------------------------------------------------------ address inputs
\* isValidAddress(address)
isValidAddress(address) ==
    address.prefix = "addr1" /\ address.length > MIN_ADDRESS_LENGTH

\* The empty string, as an address.
NoAddress == Address("other", 0, 0)

\* A non-blank line of the bulk text after trim(): whether it contains a
\* comma, and then parts[0] and parts[1] of its split, else the line itself
\* as the address.
Line(comma, label, address) ==
    [comma |-> comma, label |-> label, address |-> address]

\* parseBulkInput, from line k on: a CSV line is taken when parts[1] is not
\* empty, a plain line when it starts with "addr1".
RECURSIVE parseBulkFrom(_, _)
parseBulkFrom(lines, k) ==
    IF k > Len(lines)
    THEN << >>
    ELSE LET line == lines[k]
             default == "Address " \o ToString(k)
             rest == parseBulkFrom(lines, k + 1)
         IN  IF line.comma
             THEN IF line.address.length > 0
                  THEN << Entry(IF line.label # "" THEN line.label ELSE default,
                                line.address) >> \o rest
                  ELSE rest
             ELSE IF line.address.prefix = "addr1"
                  THEN << Entry(default, line.address) >> \o rest
                  ELSE rest

parseBulkInput(lines) == parseBulkFrom(lines, 1)

\* The JSON text: whether JSON.parse succeeds with an array, and the index
\* and bech32 of its items (NoAddress for a missing or empty bech32).
Json(array, items) == [array |-> array, items |-> items]

Item(index, bech32) == [index |-> index, bech32 |-> bech32]

RECURSIVE parseJsonFrom(_, _)
parseJsonFrom(items, k) ==
    IF k > Len(items)
    THEN << >>
    ELSE LET item == items[k]
             rest == parseJsonFrom(items, k + 1)
         IN  IF item.bech32.length > 0 /\ item.bech32.prefix = "addr1"
             THEN << Entry("Address #" \o ToString(item.index), item.bech32) >>
                      \o rest
             ELSE rest

parseJsonInput(text) ==
    IF text.array THEN parseJsonFrom(text.items, 1) ELSE << >>

\* The derived addresses as entries of a run.
SeedEntries(derived) ==
    [k \in 1..Len(derived) |->
        Entry("Address #" \o ToString(derived[k].index), derived[k].bech32)]

\* The address list handleCheckSchedule builds for the selected mode; it is
\* empty where the handler returns before the run (with an alert, or
\* silently for an empty single address).
AddressesToCheck(mode, single, bulk, json, derived) ==
    IF mode = "single"
    THEN IF single.length > 0 /\ isValidAddress(single)
         THEN << Entry("Your Address", single) >>
         ELSE << >>
    ELSE IF mode = "bulk"
    THEN parseBulkInput(bulk)
    ELSE IF mode = "json"
    THEN parseJsonInput(json)
    ELSE SeedEntries(derived)

\* What the user can have typed, pasted or uploaded.
GoodAddress(id) == Address("addr1", 103, id)

SingleTexts ==
    { NoAddress, GoodAddress(1), Address("addr1", MIN_ADDRESS_LENGTH, 2),
      Address("other", 103, 3) }

\* A bulk text long enough for a run to stop early.
LongBulk ==
    [k \in 1..(MAX_CONSECUTIVE_EMPTY + 1) |->
        Line(FALSE, "", GoodAddress(10 + k))]

BulkTexts ==
    { << >>,
      LongBulk,
      << Line(FALSE, "", Address("other", 103, 3)) >>,
      << Line(TRUE, "cold", GoodAddress(1)), Line(FALSE, "", GoodAddress(4)) >>,
      << Line(TRUE, "", NoAddress), Line(TRUE, "", Address("other", 3, 5)) >>,
      << Line(FALSE, "", Address("addr1", 20, 6)) >> }

JsonTexts ==
    { Json(FALSE, << >>),
      Json(TRUE, << Item(0, GoodAddress(1)), Item(1, NoAddress),
                    Item(2, Address("other", 103, 3)) >>),
      Json(TRUE, << Item(7, Address("addr1", 20, 6)) >>) }

ViewModes == {"timeline", "table", "calendar"}

\* The three view buttons, shown while there are results.
SetViewMode(mode) ==
    /\ Len(results) > 0
    /\ viewMode' = mode
    /\ UNCHANGED << inputMode, derivedAddresses, derivationError, gens >>
    /\ UNCHANGED runVars

\* Variant: the button is not disabled while a run is in flight.
handleCheckSchedule_NotDisabled(single, bulk, json) ==
    /\ ~(inputMode = "seed" /\ Len(derivedAddresses) = 0)
    /\ LET entries == AddressesToCheck(inputMode, single, bulk, json,
                                       derivedAddresses)
       IN  IF Len(entries) = 0
           THEN UNCHANGED vars
           ELSE StartRun(entries)

\* A click on Check Schedule, which is disabled while a run is in flight
\* and in seed mode while there are no derived addresses, with the input
\* fields as the user left them.
handleCheckSchedule(single, bulk, json) ==
    /\ ~(loading \/ (inputMode = "seed" /\ Len(derivedAddresses) = 0))
    /\ LET entries == AddressesToCheck(inputMode, single, bulk, json,
                                       derivedAddresses)
       IN  IF Len(entries) = 0
           THEN UNCHANGED vars
           ELSE StartRun(entries)

\* A continuation of the check run is queued.
Resuming == pc \in {"loop", "settled"}

\* Seed phrases and count fields the user generates with before a check.
SeedPhrases == { EmptyPhrase, Phrase(12, TRUE, TRUE) }

SeedCountTexts == { << 1 >>, << 2 >> }

\* Nothing is queued: the next step is a user event, a response or a timer.
Quiet == ~(Dispatching \/ Resuming)

\* The component: queued handlers and continuations run first, then user
\* events, responses and timers in any order.  Here the user generates
\* again only after the previous derivation has ended.
NextUI ==
    \/ \E g \in GenIds : handleGenerateAddresses(g)
    \/ \E g \in GenIds : DeriveResume(g)
    \/ IssueFetch
    \/ LoopExit
    \/ ResumeAfterFetch
    \/ /\ Quiet
       /\ \E mode \in InputModes : SetInputMode(mode)
    \/ /\ Quiet
       /\ \E mode \in ViewModes : SetViewMode(mode)
    \/ /\ Quiet
       /\ \E single \in SingleTexts, bulk \in BulkTexts, json \in JsonTexts :
             handleCheckSchedule(single, bulk, json)
    \/ /\ Quiet
       /\ \A g \in GenIds : gens[g].pc = "idle"
       /\ \E phrase \in SeedPhrases, text \in SeedCountTexts :
             GenerateClick(phrase, text)
    \/ /\ Quiet
       /\ \E g \in GenIds : DeriveSettles(g)
    \/ /\ Quiet
       /\ FetchSettles
       /\ \/ Len(addressesToCheck) <= MaxVaried
          \/ fetchSchedule(response'[1]) = Return(EmptySchedule)
    \/ /\ Quiet
       /\ DelayElapsed

SpecUI == Init /\ [][NextUI]_vars

\* ------------------------------------------------------- the check run
Next ==
    \/ CheckStart
    \/ IssueFetch
    \/ LoopExit
    \/ FetchSettles
    \/ ResumeAfterFetch
    \/ DelayElapsed

Spec == Init /\ [][Next]_vars

\* The run under the scheduling the runtime gives it: a handler that can
\* resume does resume (the event loop runs every queued continuation), every
\* request that was issued settles and every timeout elapses.  Nothing
\* obliges the user to press Check Schedule.
RunFairness ==
    /\ WF_vars(IssueFetch)
    /\ WF_vars(LoopExit)
    /\ WF_vars(FetchSettles)
    /\ WF_vars(ResumeAfterFetch)
    /\ WF_vars(DelayElapsed)

SpecLive == Init /\ [][Next]_vars /\ RunFairness

\* ----------------------------------------------------------- properties
\* Index j (0-based) has had its request issued by the current run.
Issued(j) == \E m \in 1..Len(fetchLog) : fetchLog[m] = j

\* Index j was fetched and its result record has been written.
Processed(j) ==
    /\ j + 1 <= Len(results)
    /\ Issued(j)
    /\ ~results[j + 1].loading

\* Index j was fetched and yielded an empty schedule or a failure.
EmptyOrError(j) ==
    /\ Processed(j)
    /\ \/ results[j + 1].schedule = Null
       \/ Len(results[j + 1].schedule[1].thaws) = 0

\* A run has been started and has ended.
RunComplete == pc = "idle" /\ ~loading /\ Len(addressesToCheck) > 0

\* C1: in every state the result sequence has one record per entry of the
\* run, in entry order, with the entry's address and label; no success,
\* failure or skip update changes the length, the order or these fields.
C1_OrderPreserved ==
    /\ Len(results) = Len(addressesToCheck)
    /\ \A k \in 1..Len(addressesToCheck) :
          /\ results[k].address = addressesToCheck[k].address
          /\ results[k].label = addressesToCheck[k].label

\* A run that saw a success, a failure and skipped the rest.
C1_Witness ==
    /\ RunComplete
    /\ stoppedEarly # Null
    /\ \E k \in 1..Len(results) : results[k].schedule # Null
    /\ \E k \in 1..Len(results) : results[k].error = Some("HTTP 500")
    /\ results[Len(results)].error = Some("Skipped")

\* C2: at most one request is in flight; requests are issued for indices
\* 0, 1, 2, ... in that order, and the request for an index is issued only
\* after the previous request has settled and its result record is written.
C2_OneFetchAtATime ==
    /\ Cardinality(inFlight) <= 1
    /\ \A j \in 1..Len(fetchLog) :
          /\ fetchLog[j] = j - 1
          /\ j < Len(fetchLog) =>
                /\ (j - 1) \notin inFlight
                /\ ~results[j].loading

\* The third request is out; the first two results are written.
C2_Witness ==
    /\ Len(fetchLog) = 3
    /\ inFlight = {2}
    /\ ~results[1].loading /\ ~results[2].loading /\ results[3].loading

\* C3: if the ten indices k-9..k each yielded an empty schedule or a
\* failure and k is not the last index, then no request was issued for an
\* index above k, every record above k is {loading: false, error: "Skipped"}
\* and a StoppedEarlyInfo with threshold 10 is recorded.
C3_StopsAfterTenEmpty ==
    \A k \in 9..(Len(results) - 2) :
        (\A j \in (k - 9)..k : EmptyOrError(j)) =>
            /\ \A m \in 1..Len(fetchLog) : fetchLog[m] <= k
            /\ \A idx \in (k + 1)..(Len(results) - 1) :
                  /\ results[idx + 1].loading = FALSE
                  /\ results[idx + 1].error = Some("Skipped")
            /\ stoppedEarly # Null
            /\ stoppedEarly[1].consecutiveEmpty = 10

\* Ten in a row, a failure among empty schedules, two records skipped.
C3_Witness ==
    /\ Len(results) = 12
    /\ \A j \in 0..9 : EmptyOrError(j)
    /\ \E j \in 0..9 : results[j + 1].error # Null
    /\ \E j \in 0..9 : results[j + 1].schedule # Null
    /\ results[11].error = Some("Skipped")
    /\ results[12].error = Some("Skipped")
    /\ stoppedEarly # Null


\* Some ten consecutive indices each yielded an empty schedule or a failure.
TenInARow ==
    \E k \in 9..(Len(results) - 1) : \A j \in (k - 9)..k : EmptyOrError(j)

\* The handler resumes after a successful fetch for index i.
SuccessStep ==
    /\ pc = "settled"
    /\ pc' # "settled"
    /\ results'[i + 1].schedule # Null

\* C4: a successful fetch with at least one thaw sets the counter to 0, one
\* with no thaws adds one to it; and while no ten consecutive indices were
\* empty or failed, the run has not stopped early: no StoppedEarlyInfo, no
\* record skipped, and a run that is complete has fetched every index.
C4_CounterReset ==
    /\ [](~TenInARow =>
            /\ stoppedEarly = Null
            /\ \A j \in 0..(Len(results) - 1) :
                  ~results[j + 1].loading => Issued(j)
            /\ RunComplete =>
                  \A j \in 0..(Len(results) - 1) : Processed(j))
    /\ [][SuccessStep =>
            consecutiveEmpty' =
                IF Len(results'[i + 1].schedule[1].thaws) > 0
                THEN 0
                ELSE consecutiveEmpty + 1]_vars

\* Nine empty schedules, one with a thaw, two more empty: the run completes.
C4_Witness ==
    /\ RunComplete
    /\ Len(results) = 12
    /\ stoppedEarly = Null
    /\ \A j \in 0..11 :
          /\ Processed(j)
          /\ results[j + 1].schedule # Null
          /\ (Len(results[j + 1].schedule[1].thaws) > 0) <=> (j = 9)

\* The settled request delivered status 400 with a JSON body of type
\* "no_redeemable_thaws".
NoRedeemableResponse ==
    /\ response # Null
    /\ response[1].kind = "http"
    /\ response[1].status = 400
    /\ response[1].body.json
    /\ response[1].body.type = "no_redeemable_thaws"

\* C5: when the response is 400 / no_redeemable_thaws, fetchSchedule
\* returns {numberOfClaimedAllocations: 0, thaws: []} without throwing, the
\* record of that index gets this schedule with loading=false and no error,
\* and the counter is incremented as for any empty schedule.
C5_NoRedeemableIsEmptySuccess ==
    [][(pc = "settled" /\ pc' # "settled" /\ NoRedeemableResponse) =>
          /\ fetchSchedule(response[1]).ok
          /\ results'[i + 1].schedule =
                 Some([numberOfClaimedAllocations |-> 0, thaws |-> << >>])
          /\ results'[i + 1].loading = FALSE
          /\ results'[i + 1].error = Null
          /\ consecutiveEmpty' = consecutiveEmpty + 1]_vars

\* The tenth consecutive address answers 400 / no_redeemable_thaws.
C5_Witness ==
    /\ pc = "settled"
    /\ NoRedeemableResponse
    /\ i = 9
    /\ consecutiveEmpty = 9
    /\ Len(results) = 12

\* C6: the m-th request of a run is issued after exactly m-1 delays,
\* whatever the earlier outcomes were; a run that completes without early
\* termination has issued n requests and waited n-1 times, not after the
\* last request.
C6_DelaysBetweenFetches ==
    /\ pc \in {"fetching", "settled"} => delays = Len(fetchLog) - 1
    /\ pc = "delay" => delays = Len(fetchLog)
    /\ (RunComplete /\ stoppedEarly = Null) =>
          /\ Len(fetchLog) = Len(addressesToCheck)
          /\ delays = Len(addressesToCheck) - 1

\* A complete run over three addresses, the second of which failed.
C6_Witness ==
    /\ RunComplete
    /\ stoppedEarly = Null
    /\ Len(results) = 3
    /\ results[2].error = Some("HTTP 500")
    /\ results[3].schedule # Null
    /\ delays = 2

\* No request of the current run has been processed yet.
BeforeFirstCompletion ==
    /\ loading
    /\ \/ Len(fetchLog) = 0
       \/ Len(fetchLog) = 1 /\ pc \in {"fetching", "settled"}

\* C7: from the start of a run until its first fetch has completed, and in
\* particular before the first request is issued, the result set holds one
\* record per entry, in entry order, each loading, without schedule or error.
C7_InitialResultsPublished ==
    BeforeFirstCompletion =>
        /\ Len(addressesToCheck) > 0
        /\ Len(results) = Len(addressesToCheck)
        /\ \A k \in 1..Len(addressesToCheck) :
              results[k] = [address |-> addressesToCheck[k].address,
                            label |-> addressesToCheck[k].label,
                            schedule |-> Null, error |-> Null,
                            loading |-> TRUE]

\* The run has published its records and has not issued a request yet.
C7_Witness ==
    /\ loading
    /\ pc = "loop"
    /\ fetchLog = << >>
    /\ Len(results) = 12
    /\ results[12].loading

\* A failed fetch as the claim lists it: network error, a status that is
\* neither 2xx nor 400, or a 400 that is not the no_redeemable_thaws shape.
FailedResponse ==
    /\ response # Null
    /\ \/ response[1].kind = "reject"
       \/ /\ response[1].kind = "http"
          /\ response[1].status \notin 200..299
          /\ ~NoRedeemableResponse

FailureMessage ==
    IF response[1].kind = "reject"
    THEN response[1].message
    ELSE "HTTP " \o ToString(response[1].status)

\* C8: the handler's step after a failed fetch for index i sets that record
\* to loading=false with the failure message and adds one to the counter;
\* records below i are untouched, and unless this made the early
\* termination condition true the records above i are untouched too and the
\* run goes on (busy, waiting to fetch the next index when there is one).
C8_FailureIsolated ==
    [][(pc = "settled" /\ pc' # "settled" /\ FailedResponse) =>
          /\ Len(results') = Len(results)
          /\ results'[i + 1] =
                 [results[i + 1] EXCEPT !.loading = FALSE,
                                        !.error = Some(FailureMessage)]
          /\ \A k \in 1..i : results'[k] = results[k]
          /\ consecutiveEmpty' = consecutiveEmpty + 1
          /\ ~(consecutiveEmpty' >= 10 /\ i < Len(results) - 1) =>
                /\ \A k \in (i + 2)..Len(results) : results'[k] = results[k]
                /\ loading'
                /\ stoppedEarly' = Null
                /\ i < Len(results) - 1 => pc' = "delay"]_vars

\* The fourth address failed with HTTP 400 and the fifth is being fetched.
C8_Witness ==
    /\ pc = "fetching"
    /\ inFlight = {4}
    /\ Len(results) >= 6
    /\ results[4].error = Some("HTTP 400")
    /\ results[4].schedule = Null
    /\ results[3].schedule # Null
    /\ results[5].loading
    /\ consecutiveEmpty = 4

\* What a record says about its own fetch, apart from whose record it is.
Status(r) == [schedule |-> r.schedule, error |-> r.error, loading |-> r.loading]

\* Index j was fetched and the fetch failed.
FetchFailed(j) == Processed(j) /\ results[j + 1].error # Null

\* Index j was never attempted: the run stopped before it.
NeverAttempted(j) ==
    /\ j + 1 <= Len(results)
    /\ ~Issued(j)
    /\ ~results[j + 1].loading

\* C9: the record of an address that was skipped differs, in the record
\* itself, from the record of any address whose fetch failed.
C9_SkippedDistinguishable ==
    \A j, k \in 0..(Len(results) - 1) :
        (FetchFailed(j) /\ NeverAttempted(k)) =>
            Status(results[j + 1]) # Status(results[k + 1])

\* C10: a run issues at most one request per index, hence at most n in
\* all, and a record that carries an error keeps it, with no schedule and
\* not loading, until a new run starts.
C10_NoRetry ==
    /\ [](/\ Len(fetchLog) <= Len(addressesToCheck)
          /\ \A a, b \in 1..Len(fetchLog) :
                a # b => fetchLog[a] # fetchLog[b])
    /\ [][\A k \in 1..Len(results) :
            (results[k].error # Null /\ ~(~loading /\ loading')) =>
                /\ k <= Len(results')
                /\ results'[k] = results[k]]_vars

\* The first fetch failed, the rest of the run went on and completed.
C10_Witness ==
    /\ RunComplete
    /\ Len(results) = 3
    /\ Len(fetchLog) = 3
    /\ results[1].error = Some("Failed to fetch")
    /\ results[2].schedule # Null
    /\ results[3].schedule # Null

\* ------------------------------------------- properties of the derivation
CountOutOfRange(count) == count < MIN_ADDRESS_COUNT \/ count > MAX_ADDRESS_COUNT

\* Invocation g is inside deriveAddressesFromSeed.
Deriving(g) == gens[g].pc \in {"deriving", "settled"}

\* The continuation of invocation g is queued with a failed iteration.
IndexFails(g) ==
    /\ gens[g].pc = "settled"
    /\ \/ gens[g].outcome[1].threw
       \/ gens[g].outcome[1].keyLength # PUBLIC_KEY_HEX_LENGTH

\* The continuation of invocation g is queued with the last index derived.
LastIndexDerived(g) ==
    /\ gens[g].pc = "settled"
    /\ ~IndexFails(g)
    /\ gens[g].i + 1 = gens[g].addressCount

\* The records for indices 0..n-1 of a mnemonic.
DerivedList(mnemonic, n) ==
    [k \in 1..n |->
        DerivedAddress(k - 1, LucidAddress(mnemonic, k - 1),
                       LucidKey(mnemonic, k - 1, PUBLIC_KEY_HEX_LENGTH))]

\* The handler of a click with an out-of-range count clears the list and
\* starts no derivation.
RejectsCount(g) ==
    /\ derivedAddresses' = << >>
    /\ gens'[g].pc = "idle"

\* A derivation of MAX_ADDRESS_COUNT addresses that reaches its end stores
\* that many records, numbered from 0.
MaxCountDerived ==
    \A g \in GenIds :
        (LastIndexDerived(g) /\ gens[g].addressCount = MAX_ADDRESS_COUNT)
        => /\ Len(derivedAddresses') = MAX_ADDRESS_COUNT
           /\ \A k \in 1..MAX_ADDRESS_COUNT :
                 derivedAddresses'[k].index = k - 1

\* C13 as stated: every generate request with an address count below 1 or
\* above 200 ends with the error that names the bound, before any derivation
\* step and with no derived addresses, and a derivation of 200 addresses
\* that reaches its end yields 200 entries with indices 0..199.
C13_BoundAlwaysNamed ==
    /\ [][\A g \in GenIds :
            (gens[g].pc = "clicked" /\ CountOutOfRange(gens[g].addressCount))
            => (derivationError' = Some(CountMessage) /\ RejectsCount(g))]_vars
    /\ [][MaxCountDerived]_vars

\* C13, amended: a generate request with an address count below 1 or above
\* 200 fails with a validation error before any derivation step and leaves
\* no derived addresses; the error names the bound exactly when the seed
\* phrase passes its own validation (an empty or invalid phrase is reported
\* instead).  A derivation of 200 addresses that reaches its end yields 200
\* entries with indices 0..199.
C13_CountBound ==
    /\ [](\A g \in GenIds :
            Deriving(g) => ~CountOutOfRange(gens[g].addressCount))
    /\ [][\A g \in GenIds :
            (gens[g].pc = "clicked" /\ CountOutOfRange(gens[g].addressCount))
            => /\ RejectsCount(g)
               /\ derivationError' \in
                     { Some(EmptyPhraseMessage), Some(InvalidPhraseMessage),
                       Some(CountMessage) }
               /\ derivationError' = Some(CountMessage)
                     <=> (gens[g].seedPhrase.words # 0
                          /\ validateMnemonic(gens[g].seedPhrase))]_vars
    /\ [][MaxCountDerived]_vars

\* A request with a valid phrase and count 201 has just been rejected.
C13_Witness ==
    /\ derivationError = Some(CountMessage)
    /\ derivedAddresses = << >>
    /\ \A g \in GenIds : gens[g].pc = "idle"

\* C14: a derivation for count n that succeeds returns exactly n records,
\* in order, record k (from 0) carrying index k and the address and key of
\* account index k; until then the records collected are those of the
\* indices already passed.
C14_DerivedInOrder ==
    /\ [](\A g \in GenIds :
            Deriving(g)
            => gens[g].addresses = DerivedList(gens[g].seedPhrase, gens[g].i))
    /\ [][\A g \in GenIds :
            LastIndexDerived(g)
            => derivedAddresses'
                 = DerivedList(gens[g].seedPhrase, gens[g].addressCount)]_vars

\* A derivation of two addresses has succeeded.
C14_Witness ==
    /\ Len(derivedAddresses) = 2
    /\ derivedAddresses[1].index = 0
    /\ derivedAddresses[2].index = 1
    /\ derivedAddresses[2].bech32 = LucidAddress(Phrase(12, TRUE, TRUE), 1)

\* C15: when the derivation of an invocation fails at an index, the
\* invocation ends there (no later index is derived), an error is surfaced,
\* the records it had collected are not stored and the list of derived
\* addresses is empty afterwards.
C15_FailureAborts ==
    [][\A g \in GenIds :
         IndexFails(g)
         => /\ gens'[g].pc = "idle"
            /\ derivationError' # Null
            /\ derivedAddresses' = << >>]_vars

\* C17: mnemonic validation accepts a non-empty phrase exactly when the
\* checksum validation succeeds, or every word is in the wordlist and the
\* number of words is one of 12, 15, 18, 21, 24; a phrase it rejects is
\* reported as invalid, a phrase it accepts is not.
C17_MnemonicAccepted ==
    [][\A g \in GenIds :
         (gens[g].pc = "clicked" /\ gens[g].seedPhrase.words # 0)
         => LET phrase == gens[g].seedPhrase
                accepted == \/ phrase.checksum
                            \/ /\ phrase.known
                               /\ phrase.words \in {12, 15, 18, 21, 24}
            IN  /\ accepted <=> derivationError' # Some(InvalidPhraseMessage)
                /\ accepted <=> gens'[g].pc = "deriving"]_vars

\* A 12-word phrase of wordlist words with an invalid checksum has been
\* accepted and is being derived from.
C17_Witness ==
    \E g \in GenIds :
        /\ gens[g].pc = "deriving"
        /\ gens[g].seedPhrase = Phrase(12, TRUE, FALSE)

\* ---------------------------------------- properties of the component
\* C11: while no run is in flight, and until a step starts one, no step
\* changes a result record or the StoppedEarlyInfo, whatever the user does
\* (changing the input mode or the view, generating addresses, a check that
\* fails its validation).
C11_ResultsFrozen ==
    [][(~loading /\ ~loading')
       => (results' = results /\ stoppedEarly' = stoppedEarly)]_vars

\* A run over the long bulk text has stopped early, and the user has since
\* generated addresses and changed the input mode and the view.
C11_Witness ==
    /\ ~loading
    /\ stoppedEarly # Null
    /\ Len(results) = MAX_CONSECUTIVE_EMPTY + 1
    /\ inputMode = "seed"
    /\ viewMode = "calendar"
    /\ Len(derivedAddresses) = 2

\* C12: at most one check run is active: the busy flag is true exactly from
\* the start of a run to its completion, and while it is true no step
\* starts a run over: the address list of the run stays, its requests are
\* only added to, and its result list keeps its length.
C12_OneRunAtATime ==
    /\ [](loading <=> pc # "idle")
    /\ [][loading
          => /\ addressesToCheck' = addressesToCheck
             /\ Len(results') = Len(results)
             /\ Len(fetchLog') >= Len(fetchLog)
             /\ SubSeq(fetchLog', 1, Len(fetchLog)) = fetchLog]_vars

\* A run over two addresses is in its rate-limit delay while the user has
\* switched to another input mode.
C12_Witness ==
    /\ loading
    /\ pc = "delay"
    /\ Len(addressesToCheck) = 2
    /\ addressesToCheck[1].label = "cold"
    /\ inputMode = "single"

\* C16: a generate request that fails its validation starts no derivation
\* and changes nothing but the reported error: the results, the
\* StoppedEarlyInfo, the busy flag and the list of derived addresses are
\* as they were.  (A check that fails its validation changes no state at
\* all: handleCheckSchedule.)
C16_ValidationNoSideEffect ==
    [][\A g \in GenIds :
         (gens[g].pc = "clicked" /\ gens'[g].pc = "idle")
         => /\ derivationError' # Null
            /\ results' = results
            /\ stoppedEarly' = stoppedEarly
            /\ loading' = loading
            /\ derivedAddresses' = derivedAddresses]_vars

\* C19: every address a run has issued a request for, in every input mode,
\* starts with "addr1" and is longer than 50 characters.
C19_FetchedAddressesValid ==
    \A m \in 1..Len(fetchLog) :
        isValidAddress(addressesToCheck[fetchLog[m] + 1].address)

\* C20: the step that starts a run discards what the previous run left:
\* the result list it publishes has one loading record per new entry, with
\* no schedule and no error, and the StoppedEarlyInfo is null; a
\* StoppedEarlyInfo that is not null is that of the current run, which has
\* stopped early.
C20_NewRunDiscards ==
    /\ [][(~loading /\ loading')
          => /\ stoppedEarly' = Null
             /\ Len(results') = Len(addressesToCheck')
             /\ \A k \in 1..Len(results') :
                   /\ results'[k].loading
                   /\ results'[k].schedule = Null
                   /\ results'[k].error = Null
                   /\ results'[k].address = addressesToCheck'[k].address
                   /\ results'[k].label = addressesToCheck'[k].label]_vars
    /\ [](stoppedEarly # Null
           => /\ ~loading
              /\ stoppedEarly[1].total = Len(addressesToCheck)
              /\ stoppedEarly[1].checked = checkedCount
              /\ consecutiveEmpty >= MAX_CONSECUTIVE_EMPTY)

\* A run has just been started in single mode, with the view left on the
\* calendar the user had chosen while an earlier run's results were shown.
C20_Witness ==
    /\ loading
    /\ pc = "loop"
    /\ fetchLog = << >>
    /\ viewMode = "calendar"
    /\ stoppedEarly = Null
    /\ Len(results) = 1
    /\ results[1].label = "Your Address"
    /\ results[1].loading

\* A step of the derivation: a click on Generate Addresses, its handler, or
\* an iteration of deriveAddressesFromSeed.
DerivationStep ==
    \/ gens' # gens
    \/ derivedAddresses' # derivedAddresses
    \/ derivationError' # derivationError

\* C21: while a run is in flight no step of a derivation, whether it
\* validates, fails validation, derives an index, fails at one or stores its
\* list, changes the run's address list, the requests it has issued, its
\* consecutive-empty counter or its results; in seed mode the run keeps the
\* entries made from the list that was derived when it started.
C21_DerivationLeavesRun ==
    [][(loading /\ DerivationStep)
       => /\ addressesToCheck' = addressesToCheck
          /\ fetchLog' = fetchLog
          /\ i' = i
          /\ consecutiveEmpty' = consecutiveEmpty
          /\ results' = results
          /\ loading']_vars

\* A run over two derived addresses is waiting for its second response;
\* a generate request made since has emptied the derived list and failed.
C21_Witness ==
    /\ loading
    /\ pc = "fetching"
    /\ Len(fetchLog) = 2
    /\ Len(addressesToCheck) = 2
    /\ addressesToCheck[2].label = "Address #1"
    /\ derivedAddresses = << >>
    /\ derivationError # Null

\* The handler resumes after fetchSchedule returned a schedule for index i.
FetchReturned ==
    /\ pc = "settled"
    /\ pc' # "settled"
    /\ fetchSchedule(response[1]).ok

\* C22: the handler's step after a successful fetch for index i gives
\* record i the fetched schedule with loading=false and no error, keeping its
\* address and label; every record below i is unchanged, and every record
\* above i is unchanged unless this step ends the run early, in which case
\* the records above i are the skip-marked ones.
C22_SuccessUpdate ==
    [][FetchReturned =>
          /\ Len(results') = Len(results)
          /\ results'[i + 1] =
                 [results[i + 1] EXCEPT
                     !.schedule = Some(fetchSchedule(response[1]).schedule),
                     !.loading = FALSE]
          /\ results'[i + 1].error = Null
          /\ \A k \in 1..i : results'[k] = results[k]
          /\ \A k \in (i + 2)..Len(results) :
                \/ results'[k] = results[k]
                \/ /\ stoppedEarly' # Null
                   /\ results'[k] = [results[k] EXCEPT !.loading = FALSE,
                                                       !.error = Some("Skipped")]]_vars

\* The second address of three returned a schedule with a thaw after the
\* first returned an empty one; the third is still to be fetched.
C22_Witness ==
    /\ pc = "delay"
    /\ i = 1
    /\ Len(results) = 3
    /\ results[1].schedule = Some(EmptySchedule)
    /\ results[2].schedule # Null
    /\ Len(results[2].schedule[1].thaws) = 1
    /\ ~results[2].loading
    /\ results[2].error = Null
    /\ results[3].loading

\* The handler resumes with the response of the server for index i.
HttpStep ==
    /\ pc = "settled"
    /\ pc' # "settled"
    /\ response[1].kind = "http"

\* The record of index i after the step says the fetch succeeded.
RecordedSuccess ==
    /\ results'[i + 1].schedule # Null
    /\ results'[i + 1].error = Null

\* The record of index i after the step says the fetch failed with `message`.
RecordedFailure(message) ==
    /\ results'[i + 1].schedule = Null
    /\ results'[i + 1].error = Some(message)

MarkedSkipped ==
    { j \in 0..(Len(results) - 1) :
        NeverAttempted(j) /\ results[j + 1].error = Some("Skipped") }

\* C24: a StoppedEarlyInfo is recorded exactly when the run ended with
\* addresses left unfetched; it is written by the step that stops the run
\* after index i, and then checked = i + 1 is the number of fetches issued,
\* total is the number of addresses, the threshold is 10, checked < total
\* and total - checked is the number of records marked Skipped.
C24_StoppedEarlyInfo ==
    /\ [](stoppedEarly # Null <=>
             \E j \in 0..(Len(results) - 1) : NeverAttempted(j))
    /\ [](stoppedEarly # Null =>
             /\ RunComplete
             /\ stoppedEarly[1].checked = i + 1
             /\ stoppedEarly[1].checked = Len(fetchLog)
             /\ stoppedEarly[1].total = Len(addressesToCheck)
             /\ stoppedEarly[1].consecutiveEmpty = 10
             /\ stoppedEarly[1].checked < stoppedEarly[1].total
             /\ stoppedEarly[1].total - stoppedEarly[1].checked =
                    Cardinality(MarkedSkipped))
    /\ [][(stoppedEarly' # stoppedEarly /\ stoppedEarly' # Null) =>
             /\ pc = "settled"
             /\ pc' = "idle"
             /\ ~loading'
             /\ stoppedEarly'[1].checked = i + 1]_vars

\* A run over twelve addresses stopped after the tenth, whose fetch failed:
\* ten checked, two skipped.
C24_Witness ==
    /\ RunComplete
    /\ stoppedEarly = Some([checked |-> 10, total |-> 12, consecutiveEmpty |-> 10])
    /\ results[10].error = Some("HTTP 500")
    /\ MarkedSkipped = {10, 11}

\* The handler resumes with the outcome of the fetch for the last index.
LastIndexStep ==
    /\ pc = "settled"
    /\ pc' # "settled"
    /\ i = Len(addressesToCheck) - 1

\* C25: the step that processes the last index never stops the run early,
\* whatever the counter becomes and whether the fetch returned or failed: it
\* writes only the last record, marks no record Skipped and records no
\* StoppedEarlyInfo; a complete run whose last index was fetched has every
\* index fetched and no StoppedEarlyInfo.
C25_NoStopAtLastIndex ==
    /\ [][LastIndexStep =>
             /\ stoppedEarly' = Null
             /\ \A k \in 1..i : results'[k] = results[k]
             /\ ~results'[i + 1].loading
             /\ Len(results') = Len(results)
             /\ pc' = "loop"
             /\ loading']_vars
    /\ [](\A n \in 1..Len(results) :
             (RunComplete /\ n = Len(results) /\ Processed(n - 1)) =>
                /\ stoppedEarly = Null
                /\ \A j \in 0..(n - 1) : Processed(j))

\* A complete run over ten addresses: nine empty schedules and a failure at
\* the last index, so the counter reached 10 there; nothing was skipped.
C25_Witness ==
    /\ RunComplete
    /\ Len(results) = 10
    /\ consecutiveEmpty = 10
    /\ stoppedEarly = Null
    /\ results[10].error = Some("HTTP 400")
    /\ \A k \in 1..9 : results[k].schedule = Some(EmptySchedule)

\* Record k + 1 tells how index k ended: fetched with a schedule, fetched
\* and failed, or left unfetched and marked Skipped.
Settled(k) ==
    /\ ~results[k + 1].loading
    /\ \/ Processed(k) /\ results[k + 1].schedule # Null
                       /\ results[k + 1].error = Null
       \/ Processed(k) /\ results[k + 1].schedule = Null
                       /\ results[k + 1].error # Null
       \/ NeverAttempted(k) /\ results[k + 1].schedule = Null
                            /\ results[k + 1].error = Some("Skipped")

\* C26: when every issued request settles and every timeout elapses, a run
\* that was started ends: the busy flag, once true, becomes false again; and
\* whenever the busy flag is false no record is loading, each being fetched,
\* failed or Skipped.
C26_RunTerminates ==
    /\ loading ~> ~loading
    /\ [](~loading => \A k \in 0..(Len(results) - 1) : Settled(k))

\* A run over twelve addresses has ended early: the first address was
\* fetched, the second failed, the last was never fetched.
C26_Witness ==
    /\ RunComplete
    /\ Len(results) = 12
    /\ results[1].schedule # Null
    /\ results[2].error = Some("Failed to fetch")
    /\ results[12].error = Some("Skipped")
    /\ \A k \in 0..11 : Settled(k)

\* A step of the run in flight, not the start of a new one.
SameRun == ~(~loading /\ loading')

\* C27: no record ever has both a schedule and an error, and within a run
\* each record is written at most once: a record that is no longer loading,
\* whether it holds a schedule, a failure or the skip mark, is never changed
\* again, so a fetched schedule is never followed by Skipped or a failure.
C27_WrittenOnce ==
    /\ [](\A k \in 1..Len(results) :
             ~(results[k].schedule # Null /\ results[k].error # Null))
    /\ [][SameRun =>
             \A k \in 1..Len(results) :
                ~results[k].loading => results'[k] = results[k]]_vars

\* The run stopped after the tenth address returned an empty schedule: that
\* record keeps its schedule and no error, the next one is marked Skipped.
C27_Witness ==
    /\ RunComplete
    /\ stoppedEarly # Null
    /\ Len(results) = 12
    /\ results[10].schedule = Some(EmptySchedule)
    /\ results[10].error = Null
    /\ results[11].schedule = Null
    /\ results[11].error = Some("Skipped")
    /\ results[3].error = Some("HTTP 500")
    /\ results[3].schedule = Null

\* Index j was left unfetched by the run and carries the skip mark.
Skipped(j) == NeverAttempted(j) /\ results[j + 1].error = Some("Skipped")

\* C28: in every state the records with loading=false form a prefix of the
\* result sequence; and when the run is complete the Skipped records form a
\* suffix, every index that is not Skipped having been fetched and every
\* index after a Skipped one being Skipped too; while the run is in flight
\* the records no longer loading are those of fetched indices.
C28_PrefixAndSuffix ==
    /\ \A j, k \in 1..Len(results) :
          (j < k /\ ~results[k].loading) => ~results[j].loading
    /\ RunComplete =>
          \A j \in 0..(Len(results) - 1) :
             /\ ~Skipped(j) => Processed(j)
             /\ Skipped(j) =>
                   \A k \in j..(Len(results) - 1) : Skipped(k)
    /\ loading =>
          \A j \in 0..(Len(results) - 1) :
             ~results[j + 1].loading => Processed(j)

\* A run over eleven addresses ended after the tenth: ten records fetched,
\* the first of them failed, and the last one Skipped.
C28_Witness ==
    /\ RunComplete
    /\ Len(results) = 11
    /\ results[1].error = Some("Failed to fetch")
    /\ \A j \in 0..9 : Processed(j)
    /\ Skipped(10)

\* The length of the longest run of empty-or-failed outcomes that ends at
\* index j.
RECURSIVE EmptyRun(_)
EmptyRun(j) ==
    IF j < 0 \/ ~EmptyOrError(j) THEN 0 ELSE 1 + EmptyRun(j - 1)

\* The last index the run has processed, -1 when there is none.
LastProcessed ==
    Cardinality({ j \in 0..(Len(results) - 1) : Processed(j) }) - 1

\* C29: the counter is the length of the longest run of empty-or-failed
\* outcomes ending at the last processed index; it does not exceed 10 while
\* a request is outstanding; and the run stops at the first index below the
\* last at which that length reaches 10: no later index is fetched, and a
\* run that stopped early stopped at such an index.
C29_CounterIsEmptyRun ==
    /\ consecutiveEmpty = EmptyRun(LastProcessed)
    /\ pc \in {"fetching", "settled"} => consecutiveEmpty <= 10
    /\ \A k \in 0..(Len(results) - 2) :
          (Processed(k) /\ EmptyRun(k) >= 10) =>
             /\ stoppedEarly # Null
             /\ stoppedEarly[1].checked = k + 1
             /\ \A j \in (k + 1)..(Len(results) - 1) : ~Issued(j)
    /\ stoppedEarly # Null =>
          /\ EmptyRun(stoppedEarly[1].checked - 1) = 10
          /\ LastProcessed = stoppedEarly[1].checked - 1

\* Of four addresses processed the second had a thaw and the two after it
\* were empty: the counter is 2, not 3.
C29_Witness ==
    /\ pc = "delay"
    /\ i = 3
    /\ Len(results) = 5
    /\ results[1].schedule = Some(EmptySchedule)
    /\ results[2].schedule # Null
    /\ hasThaws(results[2].schedule[1])
    /\ results[3].schedule = Some(EmptySchedule)
    /\ results[4].schedule = Some(EmptySchedule)
    /\ consecutiveEmpty = 2
    /\ EmptyRun(3) = 2

\* C30: derivationError and the derived-address list are never both set,
\* whatever generate requests were made and however their invocations
\* overlap.
C30_ErrorOrListNotBoth ==
    ~(derivationError # Null /\ Len(derivedAddresses) > 0)

====
